---- MODULE Spec2Model ----
(***************************************************************************)
(* A model of the Spotify analytics scripts: the cleaning transform and    *)
(* quality report of spotify_analysis.py, the MySQL / SQLite writers and   *)
(* their command lines, and the dashboard filter of app.py.                *)
(*                                                                         *)
(* A table (pandas DataFrame) is a record                                  *)
(*     [dtype : column name -> "object" | "float64", rows : Seq(row)]      *)
(* whose rows are functions from the column names to cells.  A cell is a   *)
(* record [k, n, s]: k = "nan" is a missing value, k = "num" a number and  *)
(* k = "str" a text.  Numbers are kept in halves (n = 2 stands for 1.0,    *)
(* n = 3 for 1.5) so that the median of an even count of values is exact.  *)
(***************************************************************************)
EXTENDS Integers, Sequences, FiniteSets, TLC

VARIABLES
    raw,        \* the table read from the CSV (run_analysis)
    df,         \* the table the pipeline is working on
    once,       \* the result of the first clean_data
    runs,       \* how many times clean_data has run
    report,     \* the last quality report
    cli,        \* the script that is running
    pc,         \* where the script is
    exit_code,  \* the exit status of the process, -1 while it runs
    files,      \* which files exist
    csv_rows,   \* the rows of the input CSV
    sqlite_db,  \* the SQLite database file and its tracks table
    frame,      \* the DataFrame the script has read
    conn,       \* the MySQL connection
    strict,     \* whether the MySQL server runs in strict SQL mode
    tbl,        \* the MySQL table, as committed
    txn,        \* the rows inserted by the open transaction
    pos,        \* the batch loop: i is the batch start, k the rows done
    fault,      \* what went wrong so far
    df_all,         \* the table the dashboard has loaded
    selected,       \* the entry of the genre selectbox that is chosen
    artist_search,  \* the text of the "Artist contains" input
    pop_range,      \* the two ends of the popularity slider
    df_filtered     \* the rows the dashboard shows

cleanVars == <<raw, df, once, runs, report>>

loadVars ==
    <<cli, pc, exit_code, files, csv_rows, sqlite_db, frame, conn, strict, tbl,
      txn, pos, fault>>

dashVars == <<df_all, selected, artist_search, pop_range, df_filtered>>

vars == <<cleanVars, loadVars, dashVars>>

-----------------------------------------------------------------------------
(* Cells *)

NaN == [k |-> "nan", n |-> 0, s |-> ""]

Num(v) == [k |-> "num", n |-> v, s |-> ""]

\* A text of len characters; for a text, n is its length.
Text(t, len) == [k |-> "str", n |-> len, s |-> t]

Str(t) == Text(t, Len(t))

isna(c) == c.k = "nan"

\* The texts of the model that Python's float() accepts, with their values
\* (in halves): "1" and "1.0" are two spellings of the same number.
NumericTexts == {"1", "1.0", "2"}

ParseText(t) == CASE t = "1" -> 2 [] t = "1.0" -> 2 [] t = "2" -> 4 [] OTHER -> 0

\* pd.to_numeric(..., errors='coerce') on one cell: numbers stay, a text
\* that parses becomes its number, every other text becomes NaN.
to_numeric(c) ==
    IF c.k = "str"
    THEN IF c.s \in NumericTexts THEN Num(ParseText(c.s)) ELSE NaN
    ELSE c

-----------------------------------------------------------------------------
(* Columns of a table *)

Columns(t) == DOMAIN t.dtype

\* The indices of the rows whose cell in column col is not missing
\* (Series.dropna()).
NotNullIdx(t, col) == {i \in 1..Len(t.rows) : ~isna(t.rows[i][col])}

\* Series.median(): the middle of the sorted non-missing values, the mean of
\* the two middle ones for an even count, NaN when there is none.
KthSmallest(t, col, idx, kth) ==
    LET v(i) == t.rows[i][col].n
    IN  CHOOSE x \in {v(i) : i \in idx} :
            /\ Cardinality({i \in idx : v(i) < x}) < kth
            /\ Cardinality({i \in idx : v(i) <= x}) >= kth

median(t, col) ==
    LET idx == NotNullIdx(t, col)
        m   == Cardinality(idx)
    IN  IF m = 0 THEN NaN
        ELSE Num((KthSmallest(t, col, idx, (m + 1) \div 2)
                  + KthSmallest(t, col, idx, (m \div 2) + 1)) \div 2)

\* A fillna whose result is not assigned back to the column.
fillna_unassigned(t, cols, value) == t

\* df[col] = df[col].fillna(value) for every col of cols that is a column of
\* the table; value is a function of the column.  Filling a hole with a text
\* makes the column's dtype object.
fillna(t, cols, value) ==
    LET on      == cols \cap Columns(t)
        hole(c) == \E i \in 1..Len(t.rows) : isna(t.rows[i][c])
    IN  [dtype |-> [c \in Columns(t) |->
                      IF c \in on /\ hole(c) /\ value[c].k = "str"
                      THEN "object" ELSE t.dtype[c]],
         rows  |-> [i \in 1..Len(t.rows) |->
                      [c \in Columns(t) |->
                         IF c \in on /\ isna(t.rows[i][c])
                         THEN value[c] ELSE t.rows[i][c]]]]

\* df[col] = pd.to_numeric(df[col], errors='coerce') for every col of cols
\* that is a column of the table: the column becomes numeric.
coerce(t, cols) ==
    [dtype |-> [c \in Columns(t) |->
                  IF c \in cols THEN "float64" ELSE t.dtype[c]],
     rows  |-> [i \in 1..Len(t.rows) |->
                  [c \in Columns(t) |->
                     IF c \in cols THEN to_numeric(t.rows[i][c])
                     ELSE t.rows[i][c]]]]

-----------------------------------------------------------------------------
(* spotify_analysis.clean_data *)

text_columns == {"artists", "album_name", "track_name"}

declared_numeric ==
    {"danceability", "energy", "loudness", "speechiness", "acousticness",
     "instrumentalness", "liveness", "valence", "tempo", "duration_ms",
     "key", "mode", "time_signature", "popularity"}

audio_features ==
    {"danceability", "energy", "valence", "loudness", "speechiness",
     "acousticness", "instrumentalness", "liveness"}

\* The number of values the heuristic samples.
SampleSize == 20

\* A step 1 that drops nothing.
drop_unnamed_skipped(t) == t

\* 1) Drop 'Unnamed: 0' if present.
drop_unnamed(t) ==
    LET keep == Columns(t) \ {"Unnamed: 0"}
    IN  [dtype |-> [c \in keep |-> t.dtype[c]],
         rows  |-> [i \in 1..Len(t.rows) |-> [c \in keep |-> t.rows[i][c]]]]

\* 2) Fill missing artists / album_name / track_name with 'Unknown'.
fill_text(t) == fillna(t, text_columns, [c \in text_columns |-> Str("Unknown")])

\* df[col].dropna().astype(str).head(20): the first SampleSize rows whose
\* cell is not missing.
sample(t, col) ==
    LET idx == NotNullIdx(t, col)
    IN  {i \in idx : Cardinality({j \in idx : j < i}) < SampleSize}

\* Whether pd.to_numeric gives a number for str(cell): a number's own
\* spelling always parses back, a text is parsed as it stands.
parses(c) == c.k = "num" \/ ~isna(to_numeric(c))

max2(a, b) == IF a >= b THEN a ELSE b

\* The heuristic of step 3: an object column outside the declared list whose
\* sample "converts well".
numeric_like(t, col) ==
    LET smp == sample(t, col)
        len == Cardinality(smp)
    IN  /\ col \notin declared_numeric
        /\ t.dtype[col] = "object"
        /\ len # 0
        /\ Cardinality({i \in smp : parses(t.rows[i][col])}) >= max2(1, len \div 2)

\* 3) The numeric candidates that are columns of the table.
numeric_candidates(t) ==
    {c \in Columns(t) : c \in declared_numeric \/ numeric_like(t, c)}

\* A step 3 that coerces but does not fill.
fill_median_skipped(t, cols) == t

\* fillna(median) for the columns whose median is defined.
fill_median(t, cols) ==
    LET on == {c \in cols \cap Columns(t) : ~isna(median(t, c))}
    IN  fillna(t, on, [c \in on |-> median(t, c)])

coerce_and_fill(t) ==
    LET cand == numeric_candidates(t)
    IN  fill_median(coerce(t, cand), cand)

\* DataFrame.drop_duplicates(subset): walk the rows in order and keep a row
\* when its key was not seen before; the key of a row is its restriction to
\* subset.  Missing values compare equal to each other.
RowKey(row, subset) == [c \in subset |-> row[c]]

RECURSIVE DropDup(_, _, _, _, _)
DropDup(rows, subset, i, seen, acc) ==
    IF i > Len(rows) THEN acc
    ELSE LET key == RowKey(rows[i], subset)
         IN  IF key \in seen
             THEN DropDup(rows, subset, i + 1, seen, acc)
             ELSE DropDup(rows, subset, i + 1, seen \cup {key}, Append(acc, rows[i]))

\* drop_duplicates(keep='last'): a row is kept when no later row has its key.
drop_duplicates_keep_last(t, subset) ==
    LET keep == {i \in 1..Len(t.rows) :
                    \A j \in (i + 1)..Len(t.rows) :
                        RowKey(t.rows[j], subset) # RowKey(t.rows[i], subset)}
        nth(kth) == CHOOSE i \in keep : Cardinality({j \in keep : j < i}) = kth - 1
    IN  [dtype |-> t.dtype,
         rows  |-> [kth \in 1..Cardinality(keep) |-> t.rows[nth(kth)]]]

drop_duplicates(t, subset) ==
    [dtype |-> t.dtype, rows |-> DropDup(t.rows, subset, 1, {}, <<>>)]

\* A step 4 that never looks at track_id.
dedupe_exact_only(t) == drop_duplicates(t, Columns(t))

\* 4) Remove duplicates by track_id if available, else exact duplicates.
dedupe(t) ==
    IF "track_id" \in Columns(t)
    THEN drop_duplicates(t, {"track_id"})
    ELSE drop_duplicates(t, Columns(t))

\* 5) Ensure the audio features are numeric: coerce again, and fill with the
\* median (which may be NaN) the columns that still have a missing value.
ensure_audio_numeric(t) ==
    LET on  == audio_features \cap Columns(t)
        c1  == coerce(t, on)
        bad == {c \in on : \E i \in 1..Len(c1.rows) : isna(c1.rows[i][c])}
    IN  fillna(c1, bad, [c \in bad |-> median(c1, c)])

\* The table as it stands when duplicates are removed (steps 1 to 3).
prepared(t) == coerce_and_fill(fill_text(drop_unnamed(t)))

clean_data(t) == ensure_audio_numeric(dedupe(prepared(t)))

-----------------------------------------------------------------------------
(* spotify_analysis.validate_cleaned_data *)

\* A critical-column list that leaves popularity out.
critical_cols_without_popularity == <<"track_id", "artists", "track_name">>

critical_cols == <<"track_id", "artists", "track_name", "popularity">>

validated_audio == audio_features \cup {"tempo"}

\* Series.duplicated().sum() / len(df[df.duplicated()]): the rows whose key
\* was already seen in an earlier row.
duplicated_sum(t, subset) ==
    Len(t.rows) - Len(DropDup(t.rows, subset, 1, {}, <<>>))

\* df[col].isnull().sum()
isnull_sum(t, col) == Cardinality({i \in 1..Len(t.rows) : isna(t.rows[i][col])})

Issue(kind, col, n, cols) == [kind |-> kind, col |-> col, n |-> n, cols |-> cols]

RECURSIVE MissingIssues(_, _)
MissingIssues(t, i) ==
    IF i > Len(critical_cols) THEN <<>>
    ELSE LET col == critical_cols[i]
         IN  (IF col \in Columns(t) /\ isnull_sum(t, col) > 0
              THEN <<Issue("missing", col, isnull_sum(t, col), {})>>
              ELSE <<>>) \o MissingIssues(t, i + 1)

non_numeric_audio(t) ==
    {c \in validated_audio \cap Columns(t) : t.dtype[c] # "float64"}

validate_cleaned_data(t) ==
    LET dup_tracks == IF "track_id" \in Columns(t)
                      THEN duplicated_sum(t, {"track_id"}) ELSE 0
        found ==
            (IF dup_tracks > 0
             THEN <<Issue("duplicate_track_ids", "track_id", dup_tracks, {})>>
             ELSE <<>>)
            \o MissingIssues(t, 1)
            \o (IF non_numeric_audio(t) # {}
                THEN <<Issue("audio_not_numeric", "", 0, non_numeric_audio(t))>>
                ELSE <<>>)
            \o (IF "Unnamed: 0" \in Columns(t)
                THEN <<Issue("unnamed_present", "Unnamed: 0", 0, {})>>
                ELSE <<>>)
    IN  [total_rows       |-> Len(t.rows),
         total_columns    |-> Cardinality(Columns(t)),
         missing_values   |-> [c \in Columns(t) |-> isnull_sum(t, c)],
         duplicates       |-> duplicated_sum(t, Columns(t)),
         duplicate_tracks |-> dup_tracks,
         column_types     |-> t.dtype,
         issues           |-> IF found = <<>>
                              THEN <<Issue("checks_passed", "", 0, {})>>
                              ELSE found]

-----------------------------------------------------------------------------
(* The tables the cleaning pipeline is run on *)

\* The largest number of rows of an input table.
MaxRows == 4

\* What pd.read_csv can give a column: numbers with holes, or texts with
\* holes.  Each column of the model draws its cells from one of these sets.
ColumnKinds(col) ==
    CASE col = "Unnamed: 0"   -> {{Num(0)}}
      [] col = "track_id"     -> {{NaN, Str("a"), Str("1"), Str("2")}}
      [] col = "artists"      -> {{NaN, Str("a"), Str("1")}}
      [] col = "album_name"   -> {{NaN, Str("1")}}
      [] col = "track_genre"  -> {{Str("a"), Str("1")}}
      [] col = "danceability" -> {{NaN, Num(2), Num(4)}, {NaN, Str("1.0"), Str("x")}}
      [] col = "energy"       -> {{NaN, Num(2)}, {NaN, Str("x")}}
      [] col = "popularity"   -> {{NaN, Num(2)}}
      [] col = "tempo"        -> {{NaN, Num(2)}, {NaN, Str("x")}}

\* The column sets of the input tables.
Schemas ==
    {{"artists", "danceability"}, {"track_id", "track_genre"},
     {"track_id", "energy"}, {"track_id", "album_name"},
     {"Unnamed: 0", "track_id", "popularity"}, {"tempo", "popularity"}}

\* The dtype read_csv gives a column: object as soon as it holds a text.
InferDtype(rows, col) ==
    IF \E i \in 1..Len(rows) : rows[i][col].k = "str" THEN "object" ELSE "float64"

MakeTable(cols, rows) ==
    [dtype |-> [c \in cols |-> InferDtype(rows, c)], rows |-> rows]

\* The functions f on DOMAIN S with f[c] \in S[c] for every c.
RECURSIVE Product(_)
Product(S) ==
    IF DOMAIN S = {} THEN {<<>>}
    ELSE LET c    == CHOOSE x \in DOMAIN S : TRUE
             rest == Product([x \in DOMAIN S \ {c} |-> S[x]])
         IN  {[x \in DOMAIN S |-> IF x = c THEN v ELSE f[x]] : f \in rest, v \in S[c]}

\* The rows a table of the given columns can hold once each column has drawn
\* its kind.
RowChoices(cols) ==
    {Product(kind) : kind \in Product([c \in cols |-> ColumnKinds(c)])}

NoReport == [total_rows |-> -1]

\* The scripts' variables while only the cleaning pipeline is looked at.
IdleLoad ==
    /\ cli = "spotify_analysis"
    /\ pc = "run"
    /\ exit_code = -1
    /\ files = {}
    /\ csv_rows = <<>>
    /\ sqlite_db = <<>>
    /\ frame = <<>>
    /\ conn = "closed"
    /\ strict = TRUE
    /\ tbl = <<>>
    /\ txn = <<>>
    /\ pos = <<>>
    /\ fault = {}

\* The dashboard's variables while the dashboard is not looked at.
IdleDash ==
    /\ df_all = <<>>
    /\ selected = 1
    /\ artist_search = <<>>
    /\ pop_range = <<0, 0>>
    /\ df_filtered = <<>>

InitClean ==
    /\ \E cols \in Schemas : \E n \in 0..MaxRows : \E R \in RowChoices(cols) :
          \E rows \in [1..n -> R] : raw = MakeTable(cols, rows)
    /\ df = raw
    /\ once = raw
    /\ runs = 0
    /\ report = NoReport
    /\ IdleLoad
    /\ IdleDash

\* df_clean = clean_data(df)
Clean ==
    /\ runs < 2
    /\ report = NoReport
    /\ df' = clean_data(df)
    /\ once' = IF runs = 0 THEN df' ELSE once
    /\ runs' = runs + 1
    /\ UNCHANGED <<raw, report>>
    /\ UNCHANGED <<loadVars, dashVars>>

\* quality_report = validate_cleaned_data(df)
Validate ==
    /\ runs < 2
    /\ report = NoReport
    /\ report' = validate_cleaned_data(df)
    /\ UNCHANGED <<raw, df, once, runs>>
    /\ UNCHANGED <<loadVars, dashVars>>

NextClean == Clean \/ Validate

SpecClean == InitClean /\ [][NextClean]_vars

-----------------------------------------------------------------------------
(* Properties of clean_data and validate_cleaned_data, under SpecClean.    *)
(* once is clean_data(raw) as soon as runs >= 1; df is clean_data(once)    *)
(* when runs = 2.                                                          *)

\* The columns drop_duplicates compares in step 4.
DedupKey(t) == IF "track_id" \in Columns(t) THEN {"track_id"} ELSE Columns(t)

\* The rows of t that no earlier row of t equals on the columns of subset.
FirstIdx(t, subset) ==
    {i \in 1..Len(t.rows) :
        \A j \in 1..(i - 1) : \E c \in subset : t.rows[j][c] # t.rows[i][c]}

\* The kth smallest element of a set of indices.
NthOf(K, kth) == CHOOSE i \in K : Cardinality({j \in K : j < i}) = kth - 1

\* The input row that the kth output row of clean_data(raw) was made from.
OriginOf(kth) ==
    LET p == prepared(raw) IN NthOf(FirstIdx(p, DedupKey(p)), kth)

\* C1: clean_data is idempotent: cleaning the cleaned table again gives the
\* same table, row for row, cell for cell, dtype for dtype.
C1_Idempotent == runs = 2 => df = once

\* C2 (as claimed): after clean_data every audio-feature column present is
\* numeric and has no missing value, for every input table.
C2_AudioComplete ==
    runs >= 1 =>
        \A c \in audio_features \cap Columns(once) :
            /\ once.dtype[c] = "float64"
            /\ \A i \in 1..Len(once.rows) : once.rows[i][c].k = "num"

\* Whether some input value of the column is a number or parses as one.
HasNumber(t, col) == \E i \in 1..Len(t.rows) : ~isna(to_numeric(t.rows[i][col]))

\* C2 (amended): after clean_data every audio-feature column present is
\* numeric; it has no missing value when at least one of its input values
\* is a number or parses as one, and is missing in every row otherwise.
C2_AudioCompleteWhereMedian ==
    runs >= 1 =>
        \A c \in audio_features \cap Columns(once) :
            /\ once.dtype[c] = "float64"
            /\ \A i \in 1..Len(once.rows) :
                  /\ once.rows[i][c].k \in {"num", "nan"}
                  /\ isna(once.rows[i][c]) <=> ~HasNumber(raw, c)

\* A cleaned table of two rows or more whose danceability column held a
\* missing value, an unparseable text and a parseable one.
C2_Witness ==
    /\ runs = 1
    /\ "danceability" \in Columns(raw)
    /\ Len(once.rows) >= 2
    /\ \E i, j, l \in 1..Len(raw.rows) :
          /\ isna(raw.rows[i]["danceability"])
          /\ raw.rows[j]["danceability"] = Str("x")
          /\ raw.rows[l]["danceability"] = Str("1.0")

\* C3: after clean_data on a table with a track_id column no two output
\* rows share a track_id (missing counted as one value).
C3_UniqueTrackId ==
    (runs >= 1 /\ "track_id" \in Columns(once)) =>
        \A i, j \in 1..Len(once.rows) :
            i # j => once.rows[i]["track_id"] # once.rows[j]["track_id"]

\* A table whose track_id was coerced to numeric and imputed, with a
\* repeated identifier in the input and two rows left in the output.
C3_Witness ==
    /\ runs = 1
    /\ "track_id" \in Columns(raw)
    /\ raw.dtype["track_id"] = "object"
    /\ once.dtype["track_id"] = "float64"
    /\ Len(once.rows) = 2
    /\ Len(raw.rows) = MaxRows
    /\ \E i \in 1..Len(raw.rows) : raw.rows[i]["track_id"] = Str("a")

\* C4: in every retained row, each artists / album_name / track_name cell
\* that was missing in the input holds 'Unknown' in the output.
C4_UnknownPlaceholder ==
    runs >= 1 =>
        \A kth \in 1..Len(once.rows) : \A c \in text_columns \cap Columns(raw) :
            isna(raw.rows[OriginOf(kth)][c]) => once.rows[kth][c] = Str("Unknown")

C5_WitnessTrackId ==
    /\ runs = 1
    /\ "track_id" \in Columns(raw)
    /\ Len(once.rows) >= 2
    /\ OriginOf(2) > 2

\* The rows of df whose track_id repeats an earlier row's.
RepeatedTrackIds ==
    IF "track_id" \in Columns(df)
    THEN {i \in 1..Len(df.rows) :
            \E j \in 1..(i - 1) : df.rows[j]["track_id"] = df.rows[i]["track_id"]}
    ELSE {}

\* The missing cells of df in the four critical columns.
MissingCritical ==
    {<<i, c>> \in (1..Len(df.rows)) \X {"track_id", "artists", "track_name", "popularity"} :
        c \in Columns(df) /\ isna(df.rows[i][c])}

ReportedKinds == {report.issues[i].kind : i \in DOMAIN report.issues}

\* C6: validate_cleaned_data reports exactly the conditions present:
\* duplicate_tracks counts the rows whose track_id repeats an earlier one; a
\* duplicate entry iff that count is above 0; one missing-value entry per
\* critical column with a missing cell and for no other column; a
\* non-numeric entry iff a validated audio column is not numeric; a leftover
\* entry iff 'Unnamed: 0' is present; 'checks passed' alone iff nothing else.
\* One repeated identifier and one missing critical cell give two entries.
C6_ReportExact ==
    report # NoReport =>
        LET iss  == report.issues
            ndup == Cardinality(RepeatedTrackIds)
            miss == {e[2] : e \in MissingCritical}
        IN  /\ report.duplicate_tracks = ndup
            /\ ("duplicate_track_ids" \in ReportedKinds) <=> ndup > 0
            /\ \A i \in DOMAIN iss :
                  iss[i].kind = "duplicate_track_ids" => iss[i].n = ndup
            /\ {iss[i].col : i \in {j \in DOMAIN iss : iss[j].kind = "missing"}} = miss
            /\ \A i \in DOMAIN iss :
                  iss[i].kind = "missing" =>
                      iss[i].n = Cardinality({e \in MissingCritical : e[2] = iss[i].col})
            /\ ("audio_not_numeric" \in ReportedKinds) <=>
                  \E c \in Columns(df) \cap
                        {"danceability", "energy", "valence", "loudness", "speechiness",
                         "acousticness", "instrumentalness", "liveness", "tempo"} :
                      df.dtype[c] # "float64"
            /\ ("unnamed_present" \in ReportedKinds) <=> "Unnamed: 0" \in Columns(df)
            /\ ("checks_passed" \in ReportedKinds) <=> ReportedKinds = {"checks_passed"}
            /\ ("checks_passed" \in ReportedKinds) <=>
                  /\ ndup = 0
                  /\ miss = {}
                  /\ "audio_not_numeric" \notin ReportedKinds
                  /\ "Unnamed: 0" \notin Columns(df)
            /\ \A i, j \in DOMAIN iss : i # j => iss[i] # iss[j]
            /\ (/\ ndup = 1
                /\ Cardinality(MissingCritical) = 1
                /\ "audio_not_numeric" \notin ReportedKinds
                /\ "Unnamed: 0" \notin Columns(df))
               => /\ Len(iss) = 2
                  /\ ReportedKinds = {"duplicate_track_ids", "missing"}

\* The report of a table with exactly one repeated identifier and one
\* missing critical value and nothing else to report: two entries.
C6_Witness ==
    /\ report # NoReport
    /\ Cardinality(RepeatedTrackIds) = 1
    /\ Cardinality(MissingCritical) = 1
    /\ Len(report.issues) = 2

-----------------------------------------------------------------------------
(* The writers (csv_to_mysql, migrate_sqlite_to_mysql, create_sql_db) and   *)
(* the command lines.  A sink row has the columns id (integer), name (text) *)
(* and score (float).                                                       *)

\* The rows per transaction of both MySQL writers.
batch_size == 1000

\* The largest input has MaxBatches full batches and one more row.
MaxBatches == 2

\* SQL NULL, as stored in a table.
Null == [k |-> "null", n |-> 0, s |-> ""]

min2(a, b) == IF a <= b THEN a ELSE b

PlainRow(i) == [id |-> Num(2 * i), name |-> Str("abc"), score |-> Num(2)]

\* The rows of an input of n rows; the last row may hold a missing score or
\* a name of 501 characters.
SourceRows(n, special) ==
    [i \in 1..n |->
        IF i < n \/ special = "plain" THEN PlainRow(i)
        ELSE IF special = "nan" THEN [PlainRow(i) EXCEPT !.score = NaN]
        ELSE [PlainRow(i) EXCEPT !.name = Text("long", 501)]]

RowCounts == {0, 1, 2, batch_size, MaxBatches * batch_size + 1}

Specials == {"plain", "nan", "long"}

\* A row left in the target table by an earlier load.
OldRow == [id |-> Num(0), name |-> Str("old"), score |-> Num(0)]

NoTable == [exists |-> FALSE, varchar |-> 0, rows |-> <<>>]

\* DataFrame.to_sql(..., if_exists='replace'): the table is replaced by the
\* rows of the frame, missing values stored as NULL.
to_sql(rows) ==
    [has_tracks |-> TRUE,
     rows |-> [i \in 1..Len(rows) |->
                 [c \in DOMAIN rows[i] |->
                    IF isna(rows[i][c]) THEN Null ELSE rows[i][c]]]]

\* pd.read_sql("SELECT * FROM tracks"): a NULL of a column that holds
\* numbers is read as NaN, a NULL of any other column as None.
read_sql(db) ==
    [i \in 1..Len(db.rows) |->
        [c \in DOMAIN db.rows[i] |->
           IF /\ db.rows[i][c].k = "null"
              /\ \E j \in 1..Len(db.rows) : db.rows[j][c].k = "num"
           THEN NaN ELSE db.rows[i][c]]]

\* df[col].astype(str).str.len().max() of the name column; -1 stands for the
\* NaN that max() gives on an empty column.
max_len(rows) ==
    IF rows = <<>> THEN -1
    ELSE LET lens == {IF isna(rows[i].name) THEN 3 ELSE rows[i].name.n :
                         i \in 1..Len(rows)}
         IN  CHOOSE m \in lens : \A x \in lens : x <= m

\* The VARCHAR length each writer declares for a text column.
col_len_csv(m) == min2(max2(m + 100, 255), 65535)

col_len_migrate(m) == min2(max2(m + 10, 50), 500)

col_len(script, m) ==
    IF script = "csv_to_mysql" THEN col_len_csv(m) ELSE col_len_migrate(m)

\* The parameters each writer passes to cursor.execute for a row:
\* load_csv_to_mysql turns missing values into None, migrate_to_mysql passes
\* tuple(row) as it is.
values_csv(row) == [c \in DOMAIN row |-> IF isna(row[c]) THEN Null ELSE row[c]]

values_migrate(row) == row

values(script, row) ==
    IF script = "csv_to_mysql" THEN values_csv(row) ELSE values_migrate(row)

\* Whether the server refuses the INSERT: a float NaN is no SQL value, and a
\* text longer than the column is refused in strict SQL mode.
refused(v, len, mode) ==
    \/ \E c \in DOMAIN v : isna(v[c])
    \/ mode /\ v.name.k = "str" /\ v.name.n > len

\* What the server stores: outside strict mode a text longer than the column
\* is cut to the column's length.
stored(v, len) ==
    IF v.name.k = "str" /\ v.name.n > len
    THEN [v EXCEPT !.name = Text(v.name.s, len)]
    ELSE v

\* conn.rollback() without the rollback.
rollback_missing(t) == t

\* conn.rollback(): the rows of the open transaction are discarded.
rollback(t) == <<>>

\* The exit status of a script whose main logs the error and returns.
except_status_returns(script) == 0

\* The exit status after an exception reached main: spotify_analysis exits 2
\* on FileNotFoundError, the two MySQL scripts call sys.exit(1), and
\* create_sql_db does not catch it, which ends the interpreter with 1.
except_status(script) == IF script = "spotify_analysis" THEN 2 ELSE 1

MysqlScripts == {"csv_to_mysql", "migrate_sqlite_to_mysql"}

Scripts == MysqlScripts \cup {"create_sql_db", "spotify_analysis"}

\* The scripts and the dashboard.
Programs == Scripts \cup {"app"}

\* The rows of the batch that starts at pos.i.
BatchLen == min2(batch_size, Len(frame) - pos.i)

IdleClean ==
    /\ raw = [dtype |-> <<>>, rows |-> <<>>]
    /\ df = raw
    /\ once = raw
    /\ runs = 0
    /\ report = NoReport

\* The files the scripts look at: the CSV every script reads by default,
\* another *spotify*.csv of the working directory, the SQLite database and
\* the CSV named like the database.
InputCsv == "spotify_clean.csv"

FallbackCsv == "spotify_raw.csv"

DbFile == "spotify_tracks.db"

SideCsv == "spotify_tracks.csv"

NoTracks == [has_tracks |-> FALSE, rows |-> <<>>]

InitLoad ==
    /\ IdleClean
    /\ IdleDash
    /\ pc = "read"
    /\ exit_code = -1
    /\ frame = <<>>
    /\ conn = "closed"
    /\ txn = <<>>
    /\ pos = [i |-> 0, k |-> 0]
    /\ fault = {}
    /\ \E script \in Programs, n \in RowCounts, special \in Specials,
          prior \in BOOLEAN, mode \in BOOLEAN,
          fs \in SUBSET {InputCsv, FallbackCsv, DbFile, SideCsv} :
          LET src == SourceRows(n, special)
              ready ==
                  CASE script = "csv_to_mysql" -> InputCsv \in fs
                    [] script = "migrate_sqlite_to_mysql" ->
                          {DbFile, SideCsv} \subseteq fs /\ prior
                    [] script = "create_sql_db" -> InputCsv \in fs
                    [] script = "spotify_analysis" -> n <= 1
                    [] script = "app" -> n <= 2
          IN  /\ fs \subseteq
                    (CASE script = "csv_to_mysql" -> {InputCsv}
                       [] script = "migrate_sqlite_to_mysql" -> {DbFile, SideCsv}
                       [] script = "create_sql_db" -> {InputCsv, DbFile}
                       [] script = "spotify_analysis" -> {InputCsv, FallbackCsv}
                       [] script = "app" -> {InputCsv, DbFile})
              /\ special # "plain" => n = 2
              /\ n > 1 => prior
              /\ ~ready => n = 0
              /\ ~mode => script = "migrate_sqlite_to_mysql" /\ special = "long"
              /\ cli = script
              /\ strict = mode
              /\ files = fs
              /\ csv_rows = IF script = "migrate_sqlite_to_mysql" THEN <<>> ELSE src
              /\ sqlite_db =
                    IF DbFile \in fs /\ prior
                    THEN to_sql(IF script = "migrate_sqlite_to_mysql"
                                THEN src ELSE <<OldRow>>)
                    ELSE NoTracks
              /\ tbl = IF script \in MysqlScripts /\ (prior \/ script = "migrate_sqlite_to_mysql")
                       THEN [exists |-> TRUE, varchar |-> 50, rows |-> <<OldRow>>]
                       ELSE NoTable

\* csv_to_mysql.main: df = read_csv(args.csv)
ReadCsv ==
    /\ cli = "csv_to_mysql"
    /\ pc = "read"
    /\ IF InputCsv \in files
       THEN /\ frame' = csv_rows
            /\ pc' = "connect"
            /\ UNCHANGED fault
       ELSE /\ pc' = "except"
            /\ fault' = fault \cup {"input"}
            /\ UNCHANGED frame
    /\ UNCHANGED <<cli, exit_code, files, csv_rows, sqlite_db, conn, strict, tbl, txn, pos>>
    /\ UNCHANGED <<cleanVars, dashVars>>

\* migrate_sqlite_to_mysql.read_sqlite: sqlite3.connect creates the database
\* file when there is none, then the CSV named like the database is read
\* (pd.read_csv raises when the file is missing or cannot be parsed), then
\* the table.
ReadSqlite ==
    /\ cli = "migrate_sqlite_to_mysql"
    /\ pc = "read"
    /\ files' = files \cup {DbFile}
    /\ IF SideCsv \in files /\ DbFile \in files /\ sqlite_db.has_tracks
       THEN \/ /\ frame' = read_sql(sqlite_db)
               /\ pc' = "connect"
               /\ UNCHANGED fault
            \/ /\ pc' = "except"
               /\ fault' = fault \cup {"read", "side_csv"}
               /\ UNCHANGED frame
       ELSE /\ pc' = "except"
            /\ fault' = fault \cup (IF DbFile \in files THEN {"read"} ELSE {"input"})
            /\ UNCHANGED frame
    /\ UNCHANGED <<cli, exit_code, csv_rows, sqlite_db, conn, strict, tbl, txn, pos>>
    /\ UNCHANGED <<cleanVars, dashVars>>

\* connect_mysql: mysql.connector.connect succeeds or raises Error.
ConnectMysql ==
    /\ cli \in MysqlScripts
    /\ pc = "connect"
    /\ \/ conn' = "open" /\ pc' = "create_db" /\ UNCHANGED fault
       \/ pc' = "except" /\ fault' = fault \cup {"connect", "Error"} /\ UNCHANGED conn
    /\ UNCHANGED <<cli, exit_code, files, csv_rows, sqlite_db, frame, strict, tbl, txn, pos>>
    /\ UNCHANGED <<cleanVars, dashVars>>

\* create_mysql_database
CreateDatabase ==
    /\ cli \in MysqlScripts
    /\ pc = "create_db"
    /\ \/ pc' = "drop" /\ UNCHANGED fault
       \/ pc' = "except" /\ fault' = fault \cup {"create_db", "Error"}
    /\ UNCHANGED <<cli, exit_code, files, csv_rows, sqlite_db, frame, conn, strict, tbl, txn, pos>>
    /\ UNCHANGED <<cleanVars, dashVars>>

\* DROP TABLE IF EXISTS and its commit, or an Error: rollback and re-raise.
DropTable ==
    /\ cli \in MysqlScripts
    /\ pc = "drop"
    /\ \/ tbl' = NoTable /\ pc' = "create_table" /\ UNCHANGED <<fault, txn>>
       \/ /\ txn' = rollback(txn)
          /\ pc' = "except"
          /\ fault' = fault \cup {"drop", "Error"}
          /\ UNCHANGED tbl
    /\ UNCHANGED <<cli, exit_code, files, csv_rows, sqlite_db, frame, conn, strict, pos>>
    /\ UNCHANGED <<cleanVars, dashVars>>

\* CREATE TABLE with the inferred column types, and its commit.  On an empty
\* frame the longest length is NaN: load_csv_to_mysql's int() raises
\* ValueError, which except Error does not catch, and migrate_to_mysql sends
\* VARCHAR(nan), which the server refuses.
CreateTable ==
    /\ cli \in MysqlScripts
    /\ pc = "create_table"
    /\ LET m == max_len(frame)
       IN  \/ /\ m # -1
              /\ tbl' = [exists |-> TRUE, varchar |-> col_len(cli, m), rows |-> <<>>]
              /\ pos' = [i |-> 0, k |-> 0]
              /\ pc' = "insert"
              /\ UNCHANGED <<fault, txn>>
           \/ /\ m = -1 => cli = "migrate_sqlite_to_mysql"
              /\ txn' = rollback(txn)
              /\ pc' = "except"
              /\ fault' = fault \cup {"create_table", "Error"}
              /\ UNCHANGED <<tbl, pos>>
           \/ /\ m = -1 /\ cli = "csv_to_mysql"
              /\ pc' = "except"
              /\ fault' = fault \cup {"create_table", "Exception"}
              /\ UNCHANGED <<tbl, pos, txn>>
    /\ UNCHANGED <<cli, exit_code, files, csv_rows, sqlite_db, frame, conn, strict>>
    /\ UNCHANGED <<cleanVars, dashVars>>

\* The first row of the batch that the server refuses, BatchLen + 1 when it
\* refuses none.
FirstRefused ==
    LET bad == {j \in 1..BatchLen :
                  refused(values(cli, frame[pos.i + j]), tbl.varchar, strict)}
    IN  IF bad = {} THEN BatchLen + 1 ELSE CHOOSE j \in bad : \A x \in bad : j <= x

\* How many rows of the batch can have been executed when a row fails.
Stops == 0..(min2(FirstRefused, BatchLen) - 1)

\* What the executes of the first stop rows of the batch add to the
\* transaction.
Inserted(stop) ==
    [j \in 1..stop |-> stored(values(cli, frame[pos.i + j]), tbl.varchar)]

\* for _, row in batch.iterrows(): cursor.execute(insert_sql, values), when
\* every row of the batch goes through.
InsertRows ==
    /\ cli \in MysqlScripts
    /\ pc = "insert"
    /\ pos.k = 0
    /\ FirstRefused = BatchLen + 1
    /\ txn' = txn \o Inserted(BatchLen)
    /\ pos' = [pos EXCEPT !.k = BatchLen]
    /\ UNCHANGED <<cli, pc, exit_code, files, csv_rows, sqlite_db, frame, conn, strict, tbl, fault>>
    /\ UNCHANGED <<cleanVars, dashVars>>

\* The same loop when, after stop rows, an execute raises a mysql.connector
\* Error (a refused row, a lost connection, ...): except Error rolls back and
\* re-raises.
InsertError ==
    /\ cli \in MysqlScripts
    /\ pc = "insert"
    /\ pos.k = 0
    /\ \E stop \in Stops :
          /\ txn' = rollback(txn \o Inserted(stop))
          /\ pos' = [pos EXCEPT !.k = stop]
    /\ pc' = "except"
    /\ fault' = fault \cup {"insert", "Error"}
    /\ UNCHANGED <<cli, exit_code, files, csv_rows, sqlite_db, frame, conn, strict, tbl>>
    /\ UNCHANGED <<cleanVars, dashVars>>

\* The same loop when, after stop rows, a row fails with an exception that
\* is no mysql.connector Error (a KeyboardInterrupt, a MemoryError, ...):
\* except Error does not catch it and only the finally clause runs.
InsertException ==
    /\ cli \in MysqlScripts
    /\ pc = "insert"
    /\ pos.k = 0
    /\ \E stop \in Stops :
          /\ txn' = txn \o Inserted(stop)
          /\ pos' = [pos EXCEPT !.k = stop]
    /\ pc' = "except"
    /\ fault' = fault \cup {"insert", "Exception"}
    /\ UNCHANGED <<cli, exit_code, files, csv_rows, sqlite_db, frame, conn, strict, tbl>>
    /\ UNCHANGED <<cleanVars, dashVars>>

\* conn.commit() at the end of a batch, and the next turn of the loop.
CommitBatch ==
    /\ cli \in MysqlScripts
    /\ pc = "insert"
    /\ pos.k = BatchLen
    /\ tbl' = [tbl EXCEPT !.rows = @ \o txn]
    /\ txn' = <<>>
    /\ pos' = [i |-> pos.i + batch_size, k |-> 0]
    /\ pc' = IF pos.i + batch_size >= Len(frame) THEN "close" ELSE "insert"
    /\ UNCHANGED <<cli, exit_code, files, csv_rows, sqlite_db, frame, conn, strict, fault>>
    /\ UNCHANGED <<cleanVars, dashVars>>

\* main: conn.close() and a normal return.
Close ==
    /\ cli \in MysqlScripts
    /\ pc = "close"
    /\ conn' = "closed"
    /\ pc' = "done"
    /\ exit_code' = 0
    /\ UNCHANGED <<cli, files, csv_rows, sqlite_db, frame, strict, tbl, txn, pos, fault>>
    /\ UNCHANGED <<cleanVars, dashVars>>

\* The exception reaches main and the process ends; the server discards
\* the transaction of a connection that goes away.
MainExcept ==
    /\ pc = "except"
    /\ exit_code' = except_status(cli)
    /\ pc' = "done"
    /\ conn' = IF conn = "open" THEN "lost" ELSE conn
    /\ txn' = <<>>
    /\ UNCHANGED <<cli, files, csv_rows, sqlite_db, frame, strict, tbl, pos, fault>>
    /\ UNCHANGED <<cleanVars, dashVars>>

\* create_sql_db.main up to the read of the CSV.
CheckCsv ==
    /\ cli = "create_sql_db"
    /\ pc = "read"
    /\ IF InputCsv \in files
       THEN /\ frame' = csv_rows
            /\ pc' = "to_sql"
            /\ UNCHANGED fault
       ELSE /\ pc' = "except"
            /\ fault' = fault \cup {"input"}
            /\ UNCHANGED frame
    /\ UNCHANGED <<cli, exit_code, files, csv_rows, sqlite_db, conn, strict, tbl, txn, pos>>
    /\ UNCHANGED <<cleanVars, dashVars>>

\* create_sql_db.main: sqlite3.connect, df.to_sql(if_exists='replace'), the
\* row count and the close; a failing to_sql leaves the old table or an
\* empty new one and the exception ends the script.
ToSql ==
    /\ cli = "create_sql_db"
    /\ pc = "to_sql"
    /\ files' = files \cup {DbFile}
    /\ \/ /\ sqlite_db' = to_sql(frame)
          /\ pc' = "done"
          /\ exit_code' = 0
          /\ UNCHANGED fault
       \/ /\ sqlite_db' \in {sqlite_db, to_sql(<<>>)}
          /\ pc' = "except"
          /\ fault' = fault \cup {"insert", "Exception"}
          /\ UNCHANGED exit_code
    /\ UNCHANGED <<cli, csv_rows, frame, conn, strict, tbl, txn, pos>>
    /\ UNCHANGED <<cleanVars, dashVars>>

\* spotify_analysis.resolve_data_path: the given path, else the first
\* *spotify*.csv of the working directory, else FileNotFoundError.
ResolveDataPath ==
    /\ cli = "spotify_analysis"
    /\ pc = "read"
    /\ IF InputCsv \in files \/ FallbackCsv \in files
       THEN /\ frame' = csv_rows
            /\ pc' = "analysis"
            /\ fault' = fault \cup (IF InputCsv \in files THEN {} ELSE {"input", "fallback"})
       ELSE /\ pc' = "except"
            /\ fault' = fault \cup {"input"}
            /\ UNCHANGED frame
    /\ UNCHANGED <<cli, exit_code, files, csv_rows, sqlite_db, conn, strict, tbl, txn, pos>>
    /\ UNCHANGED <<cleanVars, dashVars>>

\* spotify_analysis.run_analysis after the load: clean, validate, save the
\* cleaned CSV next to the input, plot; main then returns.
RunAnalysis ==
    /\ cli = "spotify_analysis"
    /\ pc = "analysis"
    /\ files' = files \cup {InputCsv}
    /\ pc' = "done"
    /\ exit_code' = 0
    /\ UNCHANGED <<cli, csv_rows, sqlite_db, frame, conn, strict, tbl, txn, pos, fault>>
    /\ UNCHANGED <<cleanVars, dashVars>>

\* A check that never finds the table.
table_present_never(fs, db) == FALSE

\* os.path.exists(db_path) and the SELECT on sqlite_master: the database file
\* exists and has a tracks table.
table_present(fs, db) == DbFile \in fs /\ db.has_tracks

\* app.ensure_sqlite_db, the whole call: True (the script goes on to load)
\* when the database file holds the tracks table or the table could be made
\* from the CSV, False (st.stop()) otherwise.  read_csv can raise before the
\* database is touched; to_sql can raise after sqlite3.connect has made the
\* file, and then leaves no table or the new table without its rows.
EnsureSqliteDb ==
    /\ cli = "app"
    /\ pc = "read"
    /\ IF table_present(files, sqlite_db)
       THEN /\ pc' = "load"
            /\ UNCHANGED <<files, sqlite_db, fault>>
       ELSE IF InputCsv \in files
       THEN \/ /\ files' = files \cup {DbFile}
               /\ sqlite_db' = to_sql(csv_rows)
               /\ pc' = "load"
               /\ UNCHANGED fault
            \/ /\ pc' = "stopped"
               /\ fault' = fault \cup {"read_csv"}
               /\ UNCHANGED <<files, sqlite_db>>
            \/ /\ files' = files \cup {DbFile}
               /\ sqlite_db' \in {sqlite_db, to_sql(<<>>)}
               /\ pc' = "stopped"
               /\ fault' = fault \cup {"to_sql"}
       ELSE /\ pc' = "stopped"
            /\ fault' = fault \cup {"no_source"}
            /\ UNCHANGED <<files, sqlite_db>>
    /\ UNCHANGED <<cli, exit_code, csv_rows, frame, conn, strict, tbl, txn, pos>>
    /\ UNCHANGED <<cleanVars, dashVars>>

\* df_all = load_full_dataframe(): st.cache_data keeps the first table read.
LoadFullDataframe ==
    /\ cli = "app"
    /\ pc = "load"
    /\ IF DbFile \in files /\ sqlite_db.has_tracks
       THEN /\ df_all' = IF df_all # <<>> THEN df_all ELSE read_sql(sqlite_db)
            /\ pc' = "rendered"
            /\ UNCHANGED fault
       ELSE /\ pc' = "stopped"
            /\ fault' = fault \cup {"read_sql"}
            /\ UNCHANGED df_all
    /\ UNCHANGED <<cli, exit_code, files, csv_rows, sqlite_db, frame, conn, strict, tbl, txn, pos>>
    /\ UNCHANGED <<selected, artist_search, pop_range, df_filtered>>
    /\ UNCHANGED cleanVars

\* Streamlit runs the script again from the top on every interaction.
Rerun ==
    /\ cli = "app"
    /\ pc \in {"rendered", "stopped"}
    /\ pc' = "read"
    /\ fault' = {}
    /\ UNCHANGED <<cli, exit_code, files, csv_rows, sqlite_db, frame, conn, strict, tbl, txn, pos>>
    /\ UNCHANGED <<cleanVars, dashVars>>

\* Between two runs of the dashboard the cleaning script writes another
\* spotify_clean.csv.
CsvChanged ==
    /\ cli = "app"
    /\ pc \in {"rendered", "stopped"}
    /\ \E n \in 0..2 : csv_rows' = SourceRows(n, "plain")
    /\ csv_rows' # csv_rows \/ InputCsv \notin files
    /\ files' = files \cup {InputCsv}
    /\ UNCHANGED <<cli, pc, exit_code, sqlite_db, frame, conn, strict, tbl, txn, pos, fault>>
    /\ UNCHANGED <<cleanVars, dashVars>>

\* Between two runs of the dashboard spotify_clean.csv is deleted.
CsvRemoved ==
    /\ cli = "app"
    /\ pc \in {"rendered", "stopped"}
    /\ InputCsv \in files
    /\ files' = files \ {InputCsv}
    /\ UNCHANGED <<cli, pc, exit_code, csv_rows, sqlite_db, frame, conn, strict, tbl, txn, pos, fault>>
    /\ UNCHANGED <<cleanVars, dashVars>>

NextLoad ==
    \/ ReadCsv \/ ReadSqlite \/ ConnectMysql \/ CreateDatabase \/ DropTable
    \/ CreateTable \/ InsertRows \/ InsertError \/ InsertException
    \/ CommitBatch \/ Close \/ MainExcept \/ CheckCsv \/ ToSql
    \/ ResolveDataPath \/ RunAnalysis
    \/ EnsureSqliteDb \/ LoadFullDataframe \/ Rerun \/ CsvChanged \/ CsvRemoved

SpecLoad == InitLoad /\ [][NextLoad]_vars

-----------------------------------------------------------------------------
(* Properties of the writers and of the command lines *)

\* The row a SELECT gives back for an input row: a missing cell is NULL.
AsNull(row) == [c \in DOMAIN row |-> IF isna(row[c]) THEN Null ELSE row[c]]

\* The committed table holds the input rows before the batch at pos.i, in
\* order, and nothing else.
HoldsBatchesBefore ==
    /\ Len(tbl.rows) = pos.i
    /\ \A j \in 1..pos.i : tbl.rows[j] = AsNull(frame[j])

InsertFailed == cli \in MysqlScripts /\ "insert" \in fault

LoadedRows == IF cli = "create_sql_db" THEN sqlite_db.rows ELSE tbl.rows

\* C8: after a successful load the sink holds exactly the rows of the input,
\* in order and equal on every column with missing cells as NULL, and
\* nothing of what it held before.
C8_RoundTrip ==
    (cli \in MysqlScripts \cup {"create_sql_db"} /\ pc = "done" /\ exit_code = 0) =>
        /\ Len(LoadedRows) = Len(frame)
        /\ \A j \in 1..Len(frame) : LoadedRows[j] = AsNull(frame[j])

Failed == fault \cap {"input", "connect", "insert"} # {}

\* C10 as stated: a script that has met a missing input file, a failed
\* connection or a failed insert never ends with status 0.
C10_NonZeroOnFailure == (pc = "done" /\ Failed) => exit_code # 0

\* C10, amended: every script runs to its end, and ends with a status above 0
\* after a failed connection, a failed insert or a missing input file,
\* except that spotify_analysis ends with status 0 when the CSV it was given
\* is missing and another *spotify*.csv of the working directory took its
\* place.
C10_NonZeroUnlessFallback ==
    /\ pc # "done" => ENABLED NextLoad
    /\ (pc = "done" /\ Failed /\ "fallback" \notin fault) => exit_code > 0
    /\ (pc = "done" /\ "fallback" \in fault) =>
            cli = "spotify_analysis" /\ exit_code = 0

\* A writer that ended with status 1 after a failed insert.
C10_Witness ==
    /\ cli = "csv_to_mysql"
    /\ pc = "done"
    /\ "insert" \in fault
    /\ exit_code = 1
    /\ conn = "lost"

-----------------------------------------------------------------------------
(* The dashboard's filter (app.py) *)

\* How many rows the loaded table has at most.
MaxDashRows == 2

\* str.lower() on the letters of the model.
lower(ch) == CASE ch = "A" -> "a" [] ch = "B" -> "b" [] OTHER -> ch

\* re.search(pat, s, re.IGNORECASE) for patterns of letters and ".": the
\* pattern matches at some place of s, "." standing for any character.
re_search(pat, s) ==
    \E i \in 1..(Len(s) - Len(pat) + 1) :
        \A j \in 1..Len(pat) :
            pat[j] = "." \/ lower(pat[j]) = lower(s[i + j - 1])

\* Series.str.contains(pat, case=False, na=False): regex is True by default,
\* and a missing value counts as no match.
str_contains(c, pat) == c.k = "str" /\ re_search(pat, c.s)

\* A missing value of a column of texts.
NoText == [k |-> "nan", n |-> 0, s |-> <<>>]

\* The rows a loaded table is made of.  Popularity has gone through
\* pd.to_numeric in load_full_dataframe.
DashRows ==
    {[track_genre |-> Str("pop"),  artists |-> Str(<<"A", "b">>),      popularity |-> Num(40)],
     [track_genre |-> Str("pop"),  artists |-> Str(<<"a", "x", "b">>), popularity |-> Num(100)],
     [track_genre |-> Str("rock"), artists |-> Str(<<"a", ".", "b">>), popularity |-> Num(100)],
     [track_genre |-> Str("All"),  artists |-> Str(<<"A", "b">>),      popularity |-> Num(0)],
     [track_genre |-> Str("rock"), artists |-> NoText,                 popularity |-> Num(40)],
     [track_genre |-> NaN,         artists |-> Str(<<"b">>),           popularity |-> NaN]}

\* The texts typed into "Artist contains".
SearchTexts == {<<>>, <<"a", "b">>, <<"a", ".", "b">>, <<"B">>}

\* sorted() of the genres of the model.
GenreOrder == <<"All", "pop", "rock">>

\* sorted(df_all['track_genre'].dropna().astype(str).unique().tolist())
all_genres(t) ==
    LET occurs(g) == \E i \in 1..Len(t) :
                        t[i].track_genre.k = "str" /\ t[i].track_genre.s = g
    IN  SelectSeq(GenreOrder, occurs)

genre_list(t) == <<"All">> \o all_genres(t)

\* The popularity scores of the table, as integers.
Scores(t) == {t[i].popularity.n \div 2 : i \in {j \in 1..Len(t) : t[j].popularity.k = "num"}}

min_pop(t) == CHOOSE m \in Scores(t) : \A x \in Scores(t) : m <= x

max_pop(t) == CHOOSE m \in Scores(t) : \A x \in Scores(t) : x <= m

\* The places the ends of the popularity slider are put at.
PopStops(t) == {v \in {0, 20, 50} : min_pop(t) <= v /\ v <= max_pop(t)}

between(c, range) == c.k = "num" /\ 2 * range[1] <= c.n /\ c.n <= 2 * range[2]

\* "Apply filters locally": df_all.copy() and the three boolean masks.
apply_filters(t, genre, search, range) ==
    LET by_genre(r) == r.track_genre.k = "str" /\ r.track_genre.s = genre
        by_artist(r) == str_contains(r.artists, search)
        by_popularity(r) == between(r.popularity, range)
        f1 == IF genre # "All" THEN SelectSeq(t, by_genre) ELSE t
        f2 == IF search # <<>> THEN SelectSeq(f1, by_artist) ELSE f1
    IN  SelectSeq(f2, by_popularity)

\* The first run of the script: the slider starts at (20, max_pop), which
\* Streamlit accepts only between min_pop and max_pop.
InitDash ==
    /\ IdleClean
    /\ cli = "app"
    /\ pc = "run"
    /\ exit_code = -1
    /\ files = {DbFile}
    /\ csv_rows = <<>>
    /\ sqlite_db = <<>>
    /\ frame = <<>>
    /\ conn = "closed"
    /\ strict = TRUE
    /\ tbl = <<>>
    /\ txn = <<>>
    /\ pos = <<>>
    /\ fault = {}
    /\ \E n \in 1..MaxDashRows : \E t \in [1..n -> DashRows] :
          /\ Scores(t) # {}
          /\ min_pop(t) <= 20 /\ 20 <= max_pop(t)
          /\ df_all = t
          /\ pop_range = <<20, max_pop(t)>>
    /\ selected = 1
    /\ artist_search = <<>>
    /\ df_filtered = apply_filters(df_all, "All", <<>>, pop_range)

\* st.sidebar.selectbox("Select Genre", genre_list) and the rerun.
SelectGenre ==
    /\ \E i \in 1..Len(genre_list(df_all)) : selected' = i
    /\ df_filtered' = apply_filters(df_all, genre_list(df_all)[selected'],
                                    artist_search, pop_range)
    /\ UNCHANGED <<df_all, artist_search, pop_range>>
    /\ UNCHANGED <<cleanVars, loadVars>>

\* st.sidebar.text_input("Artist contains") and the rerun.
TypeArtist ==
    /\ artist_search' \in SearchTexts
    /\ df_filtered' = apply_filters(df_all, genre_list(df_all)[selected],
                                    artist_search', pop_range)
    /\ UNCHANGED <<df_all, selected, pop_range>>
    /\ UNCHANGED <<cleanVars, loadVars>>

\* st.sidebar.slider("Popularity range", ...) and the rerun.
SlidePopularity ==
    /\ \E a, b \in PopStops(df_all) : a <= b /\ pop_range' = <<a, b>>
    /\ df_filtered' = apply_filters(df_all, genre_list(df_all)[selected],
                                    artist_search, pop_range')
    /\ UNCHANGED <<df_all, selected, artist_search>>
    /\ UNCHANGED <<cleanVars, loadVars>>

NextDash == SelectGenre \/ TypeArtist \/ SlidePopularity

SpecDash == InitDash /\ [][NextDash]_vars

-----------------------------------------------------------------------------
(* Properties of the dashboard's filter *)

\* The text occurs in s, letter for letter but for case.
has_substring(text, s) ==
    \E i \in 1..(Len(s) - Len(text) + 1) :
        \A j \in 1..Len(text) : lower(text[j]) = lower(s[i + j - 1])

\* The row satisfies every active predicate: the genre of the chosen entry
\* when an entry after the first is chosen, the search text when there is
\* one, and the popularity range.
Satisfies(r) ==
    /\ selected > 1 =>
          r.track_genre.k = "str" /\ r.track_genre.s = genre_list(df_all)[selected]
    /\ artist_search # <<>> =>
          r.artists.k = "str" /\ has_substring(artist_search, r.artists.s)
    /\ between(r.popularity, pop_range)

\* C9: the rows shown are exactly the rows of the loaded table that satisfy
\* every active predicate (the chosen genre, the search text as a substring
\* whatever the case, the inclusive popularity range), in the table's order.
C9_FilterExact == df_filtered = SelectSeq(df_all, Satisfies)

-----------------------------------------------------------------------------
(* Properties of a run whose input is missing, and of the dashboard's start *)

\* The script is about to read an input that is not there.
MissingInput ==
    /\ pc = "read"
    /\ \/ cli = "csv_to_mysql" /\ InputCsv \notin files
       \/ cli = "migrate_sqlite_to_mysql" /\ DbFile \notin files

\* C11: when the input of csv_to_mysql or of migrate_sqlite_to_mysql is
\* missing, no step of the run from then on creates a file, opens the MySQL
\* connection or touches a table, and the run is on its way out; and the
\* dashboard loads its table only in a run where ensure_sqlite_db returned
\* True, with the tracks table there.
C11_StopsBeforeWork ==
    [][/\ (cli \in MysqlScripts /\ (MissingInput \/ "input" \in fault)) =>
            /\ files' = files
            /\ sqlite_db' = sqlite_db
            /\ tbl' = tbl
            /\ conn' = "closed"
            /\ pc' \in {"except", "done"}
       /\ (cli = "app" /\ df_all' # df_all) =>
            pc = "load" /\ DbFile \in files /\ sqlite_db.has_tracks]_vars

\* The writer is past its DROP TABLE.
Loading ==
    /\ cli \in MysqlScripts
    /\ \/ pc \in {"create_table", "insert", "close"}
       \/ fault \cap {"create_table", "insert"} # {}
       \/ pc = "done" /\ exit_code = 0

\* C12: from the committed DROP on, the committed rows of the table are the
\* first rows of the input, in order, a multiple of 1000 of them or all N,
\* and the open transaction holds the rows that follow them, in order, and
\* never more than 1000.
C12_CommittedPrefix ==
    Loading =>
        /\ Len(tbl.rows) <= Len(frame)
        /\ Len(tbl.rows) % batch_size = 0 \/ Len(tbl.rows) = Len(frame)
        /\ \A j \in 1..Len(tbl.rows) : tbl.rows[j] = AsNull(frame[j])
        /\ Len(txn) <= batch_size
        /\ \A j \in 1..Len(txn) : txn[j] = AsNull(frame[Len(tbl.rows) + j])

-----------------------------------------------------------------------------
(* More properties of clean_data and validate_cleaned_data *)

\* The table the heuristic of step 3 looks at.
BeforeHeuristic == fill_text(drop_unnamed(raw))

\* How many of the sampled values of the column parse as numbers.
Parsing(col) ==
    Cardinality({i \in sample(BeforeHeuristic, col) :
                    parses(BeforeHeuristic.rows[i][col])})

\* The first clean_data has turned the text column into a numeric one.
Promoted(col) ==
    BeforeHeuristic.dtype[col] = "object" /\ once.dtype[col] = "float64"

\* C13: a column outside the declared numeric set is promoted exactly when
\* it is a text column and more than half of its sampled values parse as
\* numbers.
C13_MajorityPromotes ==
    runs >= 1 =>
        \A c \in Columns(once) \ declared_numeric :
            Promoted(c) <=>
                /\ BeforeHeuristic.dtype[c] = "object"
                /\ 2 * Parsing(c) > Cardinality(sample(BeforeHeuristic, c))

-----------------------------------------------------------------------------
(* Properties of the declared column types *)

\* The writer has created its table.
Created == cli \in MysqlScripts /\ pc \in {"insert", "close"} /\ tbl.exists

\* C14: the VARCHAR length of the created text column is at least the length
\* of the longest value of the column, and it is the length the other
\* writer would declare for the same column.
C14_ColumnFits ==
    Created =>
        /\ tbl.varchar >= max_len(frame)
        /\ col_len_csv(max_len(frame)) = col_len_migrate(max_len(frame))

-----------------------------------------------------------------------------
(* Properties of ensure_sqlite_db *)

\* The database file exists and holds the tracks table.
Available == DbFile \in files /\ sqlite_db.has_tracks

ReturnedTrue == cli = "app" /\ pc = "load"

ReturnedFalse ==
    cli = "app" /\ pc = "stopped" /\ fault \cap {"no_source", "read_csv", "to_sql"} # {}

\* C15: when ensure_sqlite_db has returned True the database file holds the
\* tracks table, and when it has returned False it does not.
C15_TrueIffAvailable ==
    /\ ReturnedTrue => Available
    /\ ReturnedFalse => ~Available

\* C16: once the tracks table is present, no step of the dashboard writes
\* to the database, whatever happens to the CSV, and a call of
\* ensure_sqlite_db returns True; the database is only ever written when the
\* table is absent and the CSV is there.
C16_PresentIsFinal ==
    [][cli = "app" =>
         /\ Available =>
               /\ sqlite_db' = sqlite_db
               /\ DbFile \in files'
               /\ pc = "read" => pc' = "load"
         /\ sqlite_db' # sqlite_db => ~Available /\ InputCsv \in files]_vars

\* A later run of the dashboard: ensure_sqlite_db has returned True with the
\* table as it was, although the CSV now holds other rows.
C16_Witness ==
    /\ ReturnedTrue
    /\ Available
    /\ df_all # <<>>
    /\ InputCsv \in files
    /\ csv_rows # <<>>
    /\ sqlite_db = to_sql(<<OldRow>>)
    /\ sqlite_db # to_sql(csv_rows)

-----------------------------------------------------------------------------
(* Properties of read_sqlite *)

\* C17: when the database file holds the table, read_sqlite returns the rows
\* of the table, whether or not there is a CSV named like the database and
\* whatever that CSV holds.
C17_ReadsTable ==
    (cli = "migrate_sqlite_to_mysql" /\ pc # "read" /\ sqlite_db.has_tracks) =>
        /\ "read" \notin fault
        /\ frame = read_sql(sqlite_db)

-----------------------------------------------------------------------------
(* Properties of cleaning followed by validation *)

\* C18: the report of validate_cleaned_data on the result of clean_data
\* counts no duplicate row and no duplicate track_id, and lists nothing but
\* missing values of critical columns (or that the checks passed).
C18_NoStructuralDefect ==
    (runs = 1 /\ report # NoReport) =>
        /\ report.duplicates = 0
        /\ report.duplicate_tracks = 0
        /\ ReportedKinds \subseteq {"missing", "checks_passed"}

\* The report on a cleaned table whose input had an 'Unnamed: 0' column and
\* a repeated track_id, and which still misses a critical value.
C18_Witness ==
    /\ runs = 1
    /\ report # NoReport
    /\ "Unnamed: 0" \in Columns(raw)
    /\ duplicated_sum(raw, {"track_id"}) > 0
    /\ ReportedKinds = {"missing"}

\* C19: the result of clean_data is the table as it stands after the
\* removal of duplicates; step 5 changes no cell and no type of it.
C19_LastStepIdle == runs >= 1 => once = dedupe(prepared(raw))

\* A cleaned table whose input had missing and present values in an audio
\* column, and rows that the removal of duplicates dropped.
C19_Witness ==
    /\ runs >= 1
    /\ "danceability" \in Columns(raw)
    /\ HasNumber(raw, "danceability")
    /\ \E i \in 1..Len(raw.rows) : isna(to_numeric(raw.rows[i]["danceability"]))
    /\ Len(once.rows) < Len(raw.rows)
    /\ Len(once.rows) > 1

====
